---- MODULE Spec2Model ----
(***************************************************************************)
(* A model of src/App.py: the two FastAPI handlers /calculate-integral and *)
(* /get-graph, the process-wide graph_buffer they share, and the text      *)
(* functions (normalisation, term splitting, rule classification) that     *)
(* build the explanation.                                                  *)
(*                                                                         *)
(* Text is a sequence of one-character strings, so that str.replace,       *)
(* str.split, str.strip and the `in` operator are computed as Python       *)
(* computes them.                                                          *)
(***************************************************************************)
EXTENDS Integers, Sequences, FiniteSets, TLC

VARIABLES
    graph_buffer,  \* the global of line 46: 0 is None, else the id of a BytesIO
    buffers,       \* the BytesIO objects created so far: id -> [data, pos]
    response,      \* the last /calculate-integral exchange: request, status, body
    streams,       \* per client, its /get-graph response in flight or finished
    repeated,      \* the latest step was a /calculate-integral with the request of the one before
    text,          \* input of the text functions (specification SpecText)
    pc,            \* which text function has been applied
    out_text,      \* result of the normalisation
    out_steps      \* result of the explanation / the classification

vars == <<graph_buffer, buffers, response, streams, repeated, text, pc, out_text, out_steps>>

(***************************************************************************)
(* Bounds of the model.                                                    *)
(***************************************************************************)
MaxLen == 4        \* longest text drawn from the alphabet
MaxBuffers == 2    \* BytesIO objects one run creates

(***************************************************************************)
(* Python string operations.                                               *)
(***************************************************************************)
Whitespace == {" "}

\* `sub in s`
Contains(sub, s) ==
    \E i \in 1..(Len(s) - Len(sub) + 1) : SubSeq(s, i, i + Len(sub) - 1) = sub

\* s.replace(old, new): left to right, non-overlapping
RECURSIVE Replace(_, _, _)
Replace(s, old, new) ==
    IF Len(s) < Len(old) THEN s
    ELSE IF SubSeq(s, 1, Len(old)) = old
         THEN new \o Replace(SubSeq(s, Len(old) + 1, Len(s)), old, new)
         ELSE <<s[1]>> \o Replace(Tail(s), old, new)

\* s.split(sep) for a one-character separator
RECURSIVE Split(_, _)
Split(s, sep) ==
    IF \A i \in 1..Len(s) : s[i] # sep THEN <<s>>
    ELSE LET i == CHOOSE k \in 1..Len(s) :
                      s[k] = sep /\ \A j \in 1..(k - 1) : s[j] # sep
         IN <<SubSeq(s, 1, i - 1)>> \o Split(SubSeq(s, i + 1, Len(s)), sep)

\* s.strip()
RECURSIVE Strip(_)
Strip(s) ==
    IF s = <<>> THEN s
    ELSE IF s[1] \in Whitespace THEN Strip(Tail(s))
    ELSE IF s[Len(s)] \in Whitespace THEN Strip(SubSeq(s, 1, Len(s) - 1))
    ELSE s

\* .replace('**', '^').replace('*', '\\,') : the display form of an expression
Latex(s) == Replace(Replace(s, <<"*", "*">>, <<"^">>), <<"*">>, <<"\\", ",">>)

(***************************************************************************)
(* Line 59: the text handed to sympify.                                    *)
(***************************************************************************)
Normalize(s) == Replace(s, <<"e", "*", "*">>, <<"e", "x", "p">>)

(***************************************************************************)
(* Lines 68-124: the explanation.  A step is [kind, rule, arg]; arg is the *)
(* text interpolated into the step, rule the branch that produced it.      *)
(***************************************************************************)
Step(kind, rule, arg) == [kind |-> kind, rule |-> rule, arg |-> arg]

kw_sin == <<"s", "i", "n">>
kw_cos == <<"c", "o", "s">>
kw_tan == <<"t", "a", "n">>
kw_log == <<"l", "o", "g">>
kw_ln == <<"l", "n">>
kw_exp == <<"e", "x", "p">>
kw_ecaret == <<"e", "^">>
kw_xpow == <<"x", "*", "*">>
kw_x == <<"x">>

\* lines 85-120, with the linear test placed before the power test
ClassifyLinearFirst(term) ==
    IF Contains(kw_sin, term) \/ Contains(kw_cos, term) \/ Contains(kw_tan, term)
    THEN <<"trig", IF Contains(kw_sin, term) THEN "sin"
                   ELSE IF Contains(kw_cos, term) THEN "cos" ELSE "tan">>
    ELSE IF Contains(kw_log, term) \/ Contains(kw_ln, term) THEN <<"parts", "ln">>
    ELSE IF Contains(kw_exp, term) \/ Contains(kw_ecaret, term) THEN <<"exponential", "exp">>
    ELSE IF Contains(kw_x, term) THEN <<"linear", "linear">>
    ELSE IF Contains(kw_xpow, term) THEN <<"power", "power">>
    ELSE <<"constant", "constant">>

\* lines 88-120: the branch taken for a stripped term, <<caption rule, canned fact>>
Classify(term) ==
    IF Contains(kw_sin, term) \/ Contains(kw_cos, term) \/ Contains(kw_tan, term)
    THEN <<"trig", IF Contains(kw_sin, term) THEN "sin"
                   ELSE IF Contains(kw_cos, term) THEN "cos" ELSE "tan">>
    ELSE IF Contains(kw_log, term) \/ Contains(kw_ln, term) THEN <<"parts", "ln">>
    ELSE IF Contains(kw_exp, term) \/ Contains(kw_ecaret, term) THEN <<"exponential", "exp">>
    ELSE IF Contains(kw_xpow, term) THEN <<"power", "power">>
    ELSE IF Contains(kw_x, term) THEN <<"linear", "linear">>
    ELSE <<"constant", "constant">>

\* lines 84-120, one iteration of the loop: the caption and the canned fact
TermSteps(raw) ==
    LET term == Strip(raw)
        c == Classify(term)
    IN <<Step("caption", c[1], Latex(term)), Step("fact", c[2], <<>>)>>

RECURSIVE AllTermSteps(_)
AllTermSteps(terms) ==
    IF terms = <<>> THEN <<>>
    ELSE TermSteps(Head(terms)) \o AllTermSteps(Tail(terms))

\* lines 74-81, with the loop of lines 77-79 skipping the last term
DecomposeStepsShort(expression) ==
    LET terms == Split(expression, "+")
    IN IF Len(terms) > 1
       THEN <<Step("decompose", "", <<>>)>> \o
            [i \in 1..(Len(terms) - 1) |-> Step("term", "", Latex(Strip(terms[i])))]
       ELSE <<Step("direct", "", Latex(expression))>>

\* lines 74-81
DecomposeSteps(expression) ==
    LET terms == Split(expression, "+")
    IN IF Len(terms) > 1
       THEN <<Step("decompose", "", <<>>)>> \o
            [i \in 1..Len(terms) |-> Step("term", "", Latex(Strip(terms[i])))]
       ELSE <<Step("direct", "", Latex(expression))>>

\* lines 68-124: the steps up to the final result; integrated is str(integrated_function)
Explanation(expression, integrated) ==
    <<Step("problem", "", Latex(expression))>>
    \o DecomposeSteps(expression)
    \o AllTermSteps(Split(expression, "+"))
    \o <<Step("sum", "", <<>>), Step("final", "", Latex(integrated))>>

(***************************************************************************)
(* The requests the model sends.  An optional float is <<>> (None) or a    *)
(* one-element tuple holding the number.                                   *)
(***************************************************************************)
E_x == <<"x">>
E_sum == <<"s", "i", "n", "(", "x", ")", "+", "x", "*", "*", "2">>
E_bad == <<"x", "+", "*">>
E_epow == <<"e", "*", "*", "x">>
E_tuple == <<"x", ",", "1">>
E_inv == <<"1", "/", "x">>
E_math == <<"S", "y", "m", "b", "o", "l", "(", "'", "$", "\\", "f", "o", "o", "$", "'", ")", "*", "0", "+", "x">>

Catalog == {E_x, E_bad, E_epow, E_tuple, E_inv, E_math}

None == <<>>
LowerLimits == {None, <<0>>}
UpperLimits == {None, <<1>>}

\* lines 31-34: IntegralRequest
IntegralRequest == [expression : Catalog, lower_limit : LowerLimits, upper_limit : UpperLimits]

NoRequest == [expression |-> <<>>, lower_limit |-> None, upper_limit |-> None]

(***************************************************************************)
(* The external libraries.  Each is deterministic; what the model needs of *)
(* them is the first call, if any, that raises on a given expression:      *)
(*   sympify (59), integrate (65), the definite integrate (130),           *)
(*   lambdify (141-142), the evaluation (149-154), savefig (174).          *)
(*   x                   nothing raises                                    *)
(*   x+*                 sympify raises SympifyError                       *)
(*   e**x                is handed over as expx, a free symbol: the        *)
(*                       generated function raises NameError               *)
(*   x,1                 sympify returns a tuple, on which integrate raises*)
(*   Symbol('$\foo$')*0+x  parses to x; the legend label holds the request *)
(*                       text, whose $...$ is drawn as mathtext: savefig   *)
(*                       raises ValueError                                 *)
(*   1/x                 stands for an expression on which the definite    *)
(*                       integration of line 130 raises                    *)
(***************************************************************************)
Stages == {"sympify", "integrate", "definite", "lambdify", "evaluate", "savefig", "none"}

Behaviour(e) ==
    CASE Normalize(e) = E_bad -> "sympify"
      [] Normalize(e) = E_tuple -> "integrate"
      [] Normalize(e) = Normalize(E_epow) -> "evaluate"
      [] Normalize(e) = E_math -> "savefig"
      [] Normalize(e) = E_inv -> "definite"
      [] OTHER -> "none"

\* the behaviour of the libraries on each expression of the catalog
Library == [e \in Catalog |-> Behaviour(e)]

\* the requests sent: every combination of bounds for the expressions that can
\* succeed; both bounds or none for the one whose evaluation fails; no bounds
\* for those on which sympify, integrate or savefig raises
Requests ==
    {r \in IntegralRequest :
        /\ (Behaviour(r.expression) \notin {"none", "definite"}
            => (r.lower_limit = None <=> r.upper_limit = None))
        /\ (Behaviour(r.expression) \in {"sympify", "integrate", "savefig"}
            => r.lower_limit = None)}

\* str(integrate(original_function, x)), line 65
Integrated(e) ==
    CASE e = E_x -> <<"x", "*", "*", "2", "/", "2">>
      [] e = E_sum -> <<"x", "*", "*", "3", "/", "3", " ", "-", " ", "c", "o", "s", "(", "x", ")">>
      [] e = E_epow -> <<"e", "x", "p", "x", "*", "x">>
      [] e = E_inv -> <<"l", "o", "g", "(", "x", ")">>
      [] e = E_math -> <<"x", "*", "*", "2", "/", "2">>
      [] OTHER -> <<>>

\* f"{request.lower_limit}" for a float
FloatStr(l) == IF l = <<0>> THEN <<"0", ".", "0">> ELSE <<"1", ".", "0">>

\* str(integrate(original_function, (x, lower, upper))), line 130: the value of the
\* integral of the parsed expression between the bounds, kept symbolic
Definite(request) ==
    <<"I", "[">> \o FloatStr(request.lower_limit) \o <<",">>
    \o FloatStr(request.upper_limit) \o <<"]">> \o Normalize(request.expression)

\* line 127 with truthiness in place of `is not None`
BothLimitsTruthy(request) ==
    /\ request.lower_limit \notin {None, <<0>>}
    /\ request.upper_limit \notin {None, <<0>>}

\* line 127
BothLimits(request) == request.lower_limit # None /\ request.upper_limit # None

\* lines 131-132
DefiniteSteps(request) ==
    <<Step("definite_caption", "",
           FloatStr(request.lower_limit) \o <<" ">> \o FloatStr(request.upper_limit)),
      Step("definite_value", "",
           FloatStr(request.lower_limit) \o <<" ">> \o FloatStr(request.upper_limit)
           \o <<" ">> \o Latex(request.expression) \o <<"=">> \o Definite(request))>>

\* line 181
NoLimitsText == <<"No se proporcionaron limites">>

(***************************************************************************)
(* The PNG that savefig writes for an expression (the curves and the       *)
(* legend depend on the expression alone), as the lines a BytesIO yields   *)
(* when iterated: the eight-byte PNG signature holds two line feeds, so   *)
(* it makes the first two lines; the chunks that follow make the rest.     *)
(***************************************************************************)
PngLines == <<"\\x89PNG\\r\\n", "\\x1a\\n", "IHDR..IEND">>

Png(e) == [i \in 1..Len(PngLines) |-> [line |-> PngLines[i], of |-> e]]

Clients == {"c1", "c2"}

NoStream == [state |-> "idle", buf |-> 0, body |-> <<>>]

(***************************************************************************)
(* /calculate-integral, lines 49-183.                                      *)
(***************************************************************************)
\* the first library call that raises while the handler serves request
Outcome(request) ==
    LET stage == Library[request.expression]
    IN IF stage = "definite" /\ ~BothLimits(request) THEN "none" ELSE stage

\* the outcomes after which line 173 has run, were it placed before the try of line 147
AllocatesBufferEarly(outcome) == outcome \in {"evaluate", "savefig", "none"}

\* the outcomes after which line 173, graph_buffer = io.BytesIO(), has run
AllocatesBuffer(outcome) == outcome \in {"savefig", "none"}

\* lines 68-137: steps as returned
Steps(request) ==
    Explanation(request.expression, Integrated(request.expression))
    \o (IF BothLimits(request) THEN DefiniteSteps(request) ELSE <<>>)

\* lines 179-183, with steps a module-level list that line 68 does not reset
ResultBodyGlobalSteps(request) ==
    [indefinite_integral |-> Latex(Integrated(request.expression)),
     defined_integral |-> IF BothLimits(request) THEN Definite(request) ELSE NoLimitsText,
     explanation |-> (IF "explanation" \in DOMAIN response.body
                      THEN response.body.explanation ELSE <<>>) \o Steps(request)]

\* lines 179-183
ResultBody(request) ==
    [indefinite_integral |-> Latex(Integrated(request.expression)),
     defined_integral |-> IF BothLimits(request) THEN Definite(request) ELSE NoLimitsText,
     explanation |-> Steps(request)]

\* what the client receives: lines 62, 135, 158, 179-183; an exception no try
\* encloses (lines 65, 141-142, 161-176) is answered by the framework with 500
Respond(request) ==
    LET outcome == Outcome(request)
    IN CASE outcome = "sympify" ->
              [request |-> request, status |-> 200,
               body |-> [error |-> "Error en la expresion matematica proporcionada."]]
         [] outcome = "definite" ->
              [request |-> request, status |-> 200,
               body |-> [error |-> "Error al calcular la integral definida: {e}"]]
         [] outcome = "evaluate" ->
              [request |-> request, status |-> 200,
               body |-> [error |-> "Error al evaluar la funcion: {e}"]]
         [] outcome = "none" ->
              [request |-> request, status |-> 200, body |-> ResultBody(request)]
         [] OTHER ->
              [request |-> request, status |-> 500,
               body |-> [detail |-> "Internal Server Error"]]

\* buffers holds every BytesIO the run has created, in order of creation;
\* graph_buffer, when set, is the newest
CalculateIntegral(request) ==
    LET outcome == Outcome(request)
    IN /\ AllocatesBuffer(outcome) => Len(buffers) < MaxBuffers
       /\ response' = Respond(request)
       /\ IF AllocatesBuffer(outcome)
          THEN /\ buffers' = Append(buffers,
                      [data |-> IF outcome = "none" THEN Png(request.expression) ELSE <<>>,
                       pos |-> 0])
               /\ graph_buffer' = Len(buffers) + 1
          ELSE UNCHANGED <<graph_buffer, buffers>>
       /\ repeated' = (response.request = request)
       /\ UNCHANGED <<streams, text, pc, out_text, out_steps>>

(***************************************************************************)
(* /get-graph, lines 186-193.  StreamingResponse keeps a reference to the  *)
(* BytesIO and, after the handler has returned, sends it line by line,     *)
(* each line read at the object's own cursor, until the object yields no   *)
(* more.                                                                   *)
(***************************************************************************)
GetGraph(c) ==
    /\ streams[c].state # "streaming"
    /\ IF graph_buffer # 0
       THEN streams' = [streams EXCEPT ![c] =
                [state |-> "streaming", buf |-> graph_buffer, body |-> <<>>]]
       ELSE streams' = [streams EXCEPT ![c] =
                [state |-> "error", buf |-> 0, body |-> <<>>]]
    /\ repeated' = FALSE
    /\ UNCHANGED <<graph_buffer, buffers, response, text, pc, out_text, out_steps>>

StreamNext(c) ==
    /\ streams[c].state = "streaming"
    /\ LET b == streams[c].buf
       IN \/ /\ buffers[b].pos < Len(buffers[b].data)
             /\ streams' = [streams EXCEPT
                    ![c].body = Append(@, buffers[b].data[buffers[b].pos + 1])]
             /\ buffers' = [buffers EXCEPT ![b].pos = @ + 1]
          \/ /\ buffers[b].pos >= Len(buffers[b].data)
             /\ streams' = [streams EXCEPT ![c].state = "done"]
             /\ UNCHANGED buffers
    /\ repeated' = FALSE
    /\ UNCHANGED <<graph_buffer, response, text, pc, out_text, out_steps>>

NoText == <<>>

InitServer ==
    /\ graph_buffer = 0
    /\ buffers = <<>>
    /\ response = [request |-> NoRequest, status |-> 0, body |-> [none |-> TRUE]]
    /\ streams = [c \in Clients |-> NoStream]
    /\ repeated = FALSE
    /\ text = NoText
    /\ pc = "server"
    /\ out_text = <<>>
    /\ out_steps = <<>>

Next ==
    \/ \E request \in Requests : CalculateIntegral(request)
    \/ \E c \in Clients : GetGraph(c)
    \/ \E c \in Clients : StreamNext(c)

Spec == InitServer /\ [][Next]_vars

\* the same handlers, each call answered in full before the next is made
Idle == \A c \in Clients : streams[c].state # "streaming"

NextSeq ==
    \/ Idle /\ \E request \in Requests : CalculateIntegral(request)
    \/ Idle /\ \E c \in Clients : GetGraph(c)
    \/ \E c \in Clients : StreamNext(c)

SpecSeq == InitServer /\ [][NextSeq]_vars

(***************************************************************************)
(* The text functions on their own: a text is drawn and one of the         *)
(* normalisation (line 59), the explanation (lines 68-124) and the         *)
(* classification of one term (lines 85-120) is applied to it.             *)
(***************************************************************************)
Alphabet == {"e", "*", "x", "(", "+", " "}

BoundedTexts == UNION {[1..n -> Alphabet] : n \in 0..MaxLen}

Keywords == <<kw_sin, kw_cos, kw_tan, kw_log, kw_ln, kw_exp, kw_ecaret, kw_xpow, kw_x>>

\* the keywords of a set of indices, joined in the order of Keywords
RECURSIVE Join(_, _)
Join(S, i) ==
    IF i > Len(Keywords) THEN <<>>
    ELSE (IF i \in S THEN Keywords[i] ELSE <<>>) \o Join(S, i + 1)

KeywordTexts ==
    {Join(S, 1) : S \in SUBSET (1..Len(Keywords))}
    \cup {Keywords[i] \o Keywords[j] : i, j \in 1..Len(Keywords)}
    \cup {<<"5">> \o Keywords[i] : i \in 1..Len(Keywords)}

Texts == BoundedTexts \cup KeywordTexts \cup Catalog \cup {E_sum, <<"5">>}

NormalizeText ==
    /\ pc = "input"
    /\ out_text' = Normalize(text)
    /\ pc' = "normalized"
    /\ UNCHANGED <<graph_buffer, buffers, response, streams, repeated,
                   text, out_steps>>

ExplainText ==
    /\ pc = "input"
    /\ out_steps' = Explanation(text, Integrated(text))
    /\ pc' = "explained"
    /\ UNCHANGED <<graph_buffer, buffers, response, streams, repeated,
                   text, out_text>>

ClassifyTerm ==
    /\ pc = "input"
    /\ out_steps' = TermSteps(text)
    /\ pc' = "classified"
    /\ UNCHANGED <<graph_buffer, buffers, response, streams, repeated,
                   text, out_text>>

InitText ==
    /\ graph_buffer = 0
    /\ buffers = <<>>
    /\ response = [request |-> NoRequest, status |-> 0, body |-> [none |-> TRUE]]
    /\ streams = [c \in Clients |-> NoStream]
    /\ repeated = FALSE
    /\ text \in Texts
    /\ pc = "input"
    /\ out_text = <<>>
    /\ out_steps = <<>>

NextText == NormalizeText \/ ExplainText \/ ClassifyTerm

SpecText == InitText /\ [][NextText]_vars

(***************************************************************************)
(* Properties.                                                             *)
(***************************************************************************)
IsErrorObject(body) == DOMAIN body = {"error"}

IsResultObject(body) ==
    DOMAIN body = {"indefinite_integral", "defined_integral", "explanation"}

\* a step of the server that is a /calculate-integral call
CalculateStep ==
    /\ streams' = streams
    /\ response'.request \in Requests
    /\ CalculateIntegral(response'.request)

\* the image stored by the most recent successful /calculate-integral, <<>> if none
LastStored ==
    LET ok == {i \in 1..Len(buffers) : buffers[i].data # <<>>}
    IN IF ok = {} THEN <<>>
       ELSE buffers[CHOOSE i \in ok : \A j \in ok : j <= i].data

\* C1: a /calculate-integral call that ends in an error object (the expression
\* does not parse, the definite integration fails, the evaluation for the plot
\* fails) leaves the graph state as it was: the same object, the same bytes, the
\* same cursor.
C1_ErrorKeepsGraph ==
    [][(response'.status = 200 /\ IsErrorObject(response'.body) /\ CalculateStep)
        => (graph_buffer' = graph_buffer /\ buffers' = buffers)]_vars

\* a call has just failed in the definite integration while a graph, stored by
\* an earlier call and partly read, is held
C1_Witness ==
    /\ response.status = 200
    /\ IsErrorObject(response.body)
    /\ BothLimits(response.request)
    /\ Behaviour(response.request.expression) = "definite"
    /\ graph_buffer # 0
    /\ buffers[graph_buffer].data # <<>>
    /\ buffers[graph_buffer].pos = 1

\* C2: a /get-graph response that found the graph stored by the most recent
\* successful /calculate-integral consists of that image, whole and from its
\* first line (the PNG signature), whether it is the first such response or a
\* later one.
C2_GetGraphReturnsStoredImage ==
    \A c \in Clients :
        (/\ streams[c].state = "done"
         /\ buffers[streams[c].buf].data # <<>>
         /\ buffers[streams[c].buf].data = LastStored)
        => (/\ streams[c].body = LastStored
            /\ streams[c].body[1].line = PngLines[1])

\* C3: as long as no /calculate-integral call has completed successfully, every
\* /get-graph response is the error object, whatever calls have failed before.
C3_NoGraphBeforeSuccess ==
    LastStored = <<>> => \A c \in Clients : streams[c].state \in {"idle", "error"}

\* C4: every /calculate-integral response has the success status and a body that
\* is either an error object, holding the field error alone, or a result object
\* with indefinite_integral, defined_integral and explanation.
C4_AlwaysErrorOrResult ==
    response.status # 0 =>
        /\ response.status = 200
        /\ IsErrorObject(response.body) \/ IsResultObject(response.body)

\* C5: in a successful response the definite integral is computed and its two
\* steps end the explanation exactly when both bounds were supplied, a bound of 0
\* counting as supplied; otherwise defined_integral is the fixed text and the
\* explanation ends with the final-result step.
C5_DefiniteIffBothLimits ==
    (response.status = 200 /\ IsResultObject(response.body)) =>
        LET r == response.request
            s == response.body.explanation
            both == r.lower_limit # None /\ r.upper_limit # None
        IN /\ both =>
                /\ response.body.defined_integral = Definite(r)
                /\ response.body.defined_integral # NoLimitsText
                /\ s[Len(s) - 1].kind = "definite_caption"
                /\ s[Len(s)].kind = "definite_value"
                /\ s[Len(s) - 2].kind = "final"
           /\ ~both =>
                /\ response.body.defined_integral = NoLimitsText
                /\ s[Len(s)].kind = "final"
                /\ \A i \in 1..Len(s) :
                       s[i].kind \notin {"definite_caption", "definite_value"}

\* a successful response to a request whose lower bound is 0
C5_Witness ==
    /\ response.status = 200
    /\ IsResultObject(response.body)
    /\ response.request.lower_limit = <<0>>
    /\ response.request.upper_limit = <<1>>
    /\ response.body.defined_integral # NoLimitsText

C10_ResponseIsOneWholeImage ==
    \A c \in Clients :
        (streams[c].state = "done" /\ buffers[streams[c].buf].data # <<>>)
        => \E e \in Catalog : streams[c].body = Png(e)

\* the characters that continue a name in an expression
NameChars ==
    {"a", "b", "c", "d", "e", "f", "g", "h", "i", "j", "k", "l", "m", "n", "o", "p",
     "q", "r", "s", "t", "u", "v", "w", "x", "y", "z", "_",
     "0", "1", "2", "3", "4", "5", "6", "7", "8", "9"}

\* the places of s where word starts and is not the tail of a longer name
StartsOf(word, s) ==
    {i \in 1..Len(s) :
        /\ i + Len(word) - 1 <= Len(s)
        /\ SubSeq(s, i, i + Len(word) - 1) = word
        /\ (i = 1 \/ s[i - 1] \notin NameChars)}

\* C6: the text handed to the parser holds one call of the exponential function
\* for each power of the constant e in the request (exp followed by its
\* argument in parentheses, no e** left), and a text without a power of the
\* constant e is handed over as it is.
C6_EPowerBecomesExpCall ==
    pc = "normalized" =>
        /\ Cardinality(StartsOf(<<"e", "x", "p", "(">>, out_text))
             = Cardinality(StartsOf(<<"e", "x", "p", "(">>, text))
               + Cardinality(StartsOf(<<"e", "*", "*">>, text))
        /\ StartsOf(<<"e", "*", "*">>, out_text) = {}
        /\ StartsOf(<<"e", "*", "*">>, text) = {} => out_text = text

PlusCount(s) == Cardinality({i \in 1..Len(s) : s[i] = "+"})

KindCount(s, kind) == Cardinality({i \in 1..Len(s) : s[i].kind = kind})

\* C7: with n the number of terms the text splits into on +, the explanation
\* is: the problem step; then, if n > 1, the decompose step and one listing step
\* per term, else the solve-directly step; then n pairs of a rule caption and a
\* canned fact, in term order; then the sum step.  For sin(x)+x**2 the two
\* captions are the trig one and the power-rule one.
C7_ExplanationShape ==
    pc = "explained" =>
        LET n == PlusCount(text) + 1
            s == out_steps
            d == IF n > 1 THEN n + 1 ELSE 1
            terms == Split(text, "+")
        IN /\ Len(s) = 1 + d + 2 * n + 2
           /\ s[1].kind = "problem"
           /\ IF n > 1
              THEN /\ s[2].kind = "decompose"
                   /\ \A k \in 1..n :
                          s[2 + k] = Step("term", "", Latex(Strip(terms[k])))
              ELSE s[2].kind = "direct"
           /\ \A k \in 1..n :
                  /\ s[1 + d + 2 * k - 1].kind = "caption"
                  /\ s[1 + d + 2 * k - 1].arg = Latex(Strip(terms[k]))
                  /\ s[1 + d + 2 * k].kind = "fact"
           /\ s[1 + d + 2 * n + 1].kind = "sum"
           /\ KindCount(s, "caption") = n
           /\ KindCount(s, "fact") = n
           /\ KindCount(s, "decompose") = (IF n > 1 THEN 1 ELSE 0)
           /\ KindCount(s, "term") = (IF n > 1 THEN n ELSE 0)
           /\ KindCount(s, "direct") = (IF n > 1 THEN 0 ELSE 1)
           /\ text = E_sum =>
                  /\ KindCount(s, "decompose") = 1
                  /\ KindCount(s, "caption") = 2
                  /\ s[5].rule = "trig"
                  /\ s[7].rule = "power"

\* sin(x)+x**2 has been explained
C7_Witness == pc = "explained" /\ text = E_sum /\ Len(out_steps) = 10

\* the rules in their order of precedence, and the keywords of each
RuleOrder == <<"trig", "parts", "exponential", "power", "linear", "constant">>

RuleKeywords(rule) ==
    CASE rule = "trig" -> {kw_sin, kw_cos, kw_tan}
      [] rule = "parts" -> {kw_log, kw_ln}
      [] rule = "exponential" -> {kw_exp, kw_ecaret}
      [] rule = "power" -> {kw_xpow}
      [] rule = "linear" -> {kw_x}
      [] OTHER -> {}

Matches(rule, term) ==
    rule = "constant" \/ \E k \in RuleKeywords(rule) : Contains(k, term)

FirstRule(term) ==
    RuleOrder[CHOOSE i \in 1..Len(RuleOrder) :
                 /\ Matches(RuleOrder[i], term)
                 /\ \A j \in 1..(i - 1) : ~Matches(RuleOrder[j], term)]

FactOf(rule, term) ==
    CASE rule = "trig" ->
              IF Contains(kw_sin, term) THEN "sin"
              ELSE IF Contains(kw_cos, term) THEN "cos" ELSE "tan"
      [] rule = "parts" -> "ln"
      [] rule = "exponential" -> "exp"
      [] OTHER -> rule

\* C9: whatever keywords a term holds, its classification is one caption and
\* one canned fact, those of the first rule in the order trig, by parts,
\* exponential, power, linear, constant that has a keyword in the term; within
\* trig the fact is that of sin before cos before tan.
C9_FirstMatchClassification ==
    pc = "classified" =>
        LET term == Strip(text)
        IN out_steps = <<Step("caption", FirstRule(term), Latex(term)),
                         Step("fact", FactOf(FirstRule(term), term), <<>>)>>

\* a term that holds cos, log and x** has been classified
C9_Witness ==
    /\ pc = "classified"
    /\ Contains(kw_cos, text) /\ Contains(kw_log, text) /\ Contains(kw_xpow, text)
    /\ ~Contains(kw_sin, text)
    /\ out_steps[1].rule = "trig"
    /\ out_steps[2].rule = "cos"

====
